---- MODULE Spec2Model ----
(***************************************************************************)
(* The two SAR change-detection dashboards of the repository:              *)
(*   variant "A" = src/SIH/gglmfao.py,  variant "B" = src/testing.py.      *)
(* Each variant is a script that the hosting framework executes from its   *)
(* first line on every page interaction.  A run authenticates against the  *)
(* remote engine, initialises it, defines its functions, calls main(),     *)
(* renders the form and, when the form was submitted, parses the inputs,   *)
(* builds the AOI, issues the remote image pipeline, requests the tile     *)
(* endpoints and renders the result map.  Every call into the remote       *)
(* engine may raise.                                                       *)
(***************************************************************************)
EXTENDS Integers, Sequences, FiniteSets, TLC

VARIABLES
    pc,            \* position of the run of each variant
    exc,           \* type of the exception that ended the run ("none" if none)
    excLine,       \* source line at which it was raised (0 if none)
    submitted,     \* value of st.form_submit_button in this run
    radius_km,     \* value of the radius number input
    lat_lon,       \* value of the coordinate text field (session state, variant A)
    dates,         \* <<start1, end1, start2, end2>> of the four date inputs
    center,        \* <<center_lat, center_lon>> once assigned, <<>> before
    aoi,           \* "none", or "buffer" once get_buffered_aoi returned
    images,        \* "none" before process_images returned, then "ok" or "null"
    ops,           \* calls issued to the remote engine after start-up, in order
    failedAt,      \* index in ops of the call that raised, 0 if none did
    startup,       \* start-up calls completed in this run, in order
    errorShown,    \* st.error was called in this run
    printed,       \* print was called in this run
    formRendered,  \* the form was rendered in this run
    layers,        \* layers added to updated_map, in order
    mapCenter,     \* location of updated_map, <<>> if it was not created
    displayed      \* the result map was handed to st.components.v1.html

vars == <<pc, exc, excLine, submitted, radius_km, lat_lon, dates, center, aoi,
          images, ops, failedAt, startup, errorShown, printed, formRendered,
          layers, mapCenter, displayed>>

Variants == {"A", "B"}

(***************************************************************************)
(* Text: a string is a sequence of one-character strings.                  *)
(***************************************************************************)
MaxLen == 3

Alphabet == {"2", "7", ",", " "}

Digits == <<"0", "1", "2", "3", "4", "5", "6", "7", "8", "9">>

IsDigit(c) == \E i \in 1..10 : Digits[i] = c

DigitVal(c) == (CHOOSE i \in 1..10 : Digits[i] = c) - 1

IsSpace(c) == c = " "

RECURSIVE LStrip(_)
LStrip(s) == IF s # <<>> /\ IsSpace(Head(s)) THEN LStrip(Tail(s)) ELSE s

RECURSIVE RStrip(_)
RStrip(s) ==
    IF s # <<>> /\ IsSpace(s[Len(s)]) THEN RStrip(SubSeq(s, 1, Len(s) - 1)) ELSE s

Strip(s) == RStrip(LStrip(s))

\* Index of the first occurrence of character c in s, 0 if there is none.
Find(s, c) ==
    IF \E i \in 1..Len(s) : s[i] = c
    THEN CHOOSE i \in 1..Len(s) : s[i] = c /\ \A j \in 1..(i - 1) : s[j] # c
    ELSE 0

\* str.split(sep): the parts between the separators, empty parts kept.
RECURSIVE Split(_, _)
Split(s, sep) ==
    LET i == Find(s, sep)
    IN  IF i = 0 THEN <<s>>
        ELSE <<SubSeq(s, 1, i - 1)>> \o Split(SubSeq(s, i + 1, Len(s)), sep)

RECURSIVE DigitsValue(_)
DigitsValue(s) ==
    IF s = <<>> THEN 0
    ELSE 10 * DigitsValue(SubSeq(s, 1, Len(s) - 1)) + DigitVal(s[Len(s)])

RECURSIVE Pow10(_)
Pow10(n) == IF n = 0 THEN 1 ELSE 10 * Pow10(n - 1)

\* A decimal fraction num/den in lowest decimal form (den a power of ten).
RECURSIVE Norm(_, _)
Norm(num, den) ==
    IF den > 1 /\ num % 10 = 0 THEN Norm(num \div 10, den \div 10)
    ELSE <<num, den>>

NoFloat == [ok |-> FALSE, val |-> <<0, 1>>]

\* float(text) on an unsigned decimal numeral: digits, at most one point,
\* at least one digit.
UnsignedFloat(t) ==
    LET p    == Find(t, ".")
        ip   == IF p = 0 THEN t ELSE SubSeq(t, 1, p - 1)
        fp   == IF p = 0 THEN <<>> ELSE SubSeq(t, p + 1, Len(t))
        digs == ip \o fp
    IN  IF digs # <<>> /\ \A i \in 1..Len(digs) : IsDigit(digs[i])
        THEN [ok |-> TRUE, val |-> Norm(DigitsValue(digs), Pow10(Len(fp)))]
        ELSE NoFloat

\* float(text): surrounding white space is dropped, one sign is allowed.
float(s) ==
    LET t == Strip(s)
    IN  IF t = <<>> THEN NoFloat
        ELSE IF Head(t) = "-"
             THEN LET u == UnsignedFloat(Tail(t))
                  IN  [ok |-> u.ok, val |-> <<0 - u.val[1], u.val[2]>>]
        ELSE IF Head(t) = "+" THEN UnsignedFloat(Tail(t))
        ELSE UnsignedFloat(t)

(***************************************************************************)
(* Parameter intake.                                                       *)
(***************************************************************************)
\* A parser that accepts a single number and takes it for both halves.
ParseCoordinates_lenient(text) ==
    LET parts == Split(text, ",")
    IN  IF Len(parts) >= 1 /\ float(parts[1]).ok
        THEN [ok |-> TRUE, lat |-> float(parts[1]).val,
              lon |-> IF Len(parts) >= 2 /\ float(parts[2]).ok
                      THEN float(parts[2]).val ELSE float(parts[1]).val]
        ELSE [ok |-> FALSE, lat |-> <<0, 1>>, lon |-> <<0, 1>>]

\* center_lat, center_lon = map(float, lat_lon.split(",")): exactly two
\* parts, each accepted by float; anything else raises ValueError.
ParseCoordinates(text) ==
    LET parts == Split(text, ",")
    IN  IF Len(parts) = 2 /\ float(parts[1]).ok /\ float(parts[2]).ok
        THEN [ok |-> TRUE, lat |-> float(parts[1]).val, lon |-> float(parts[2]).val]
        ELSE [ok |-> FALSE, lat |-> <<0, 1>>, lon |-> <<0, 1>>]

\* The fixed demonstration centre of variant B: 20.0, 77.0.
FixedCenter == << <<20, 1>>, <<77, 1>> >>

RECURSIVE Pad(_, _)
Pad(n, w) == IF w = 0 THEN <<>> ELSE Pad(n \div 10, w - 1) \o <<Digits[(n % 10) + 1]>>

\* str(date) of a date <<year, month, day>>: YYYY-MM-DD.
DateStr(d) == Pad(d[1], 4) \o <<"-">> \o Pad(d[2], 2) \o <<"-">> \o Pad(d[3], 2)

\* The literal date ranges of variant B.
FixedDates ==
    << <<"2", "0", "2", "3", "-", "0", "1", "-", "0", "1">>,
       <<"2", "0", "2", "3", "-", "0", "1", "-", "1", "5">>,
       <<"2", "0", "2", "3", "-", "0", "7", "-", "0", "1">>,
       <<"2", "0", "2", "3", "-", "0", "7", "-", "1", "5">> >>

(***************************************************************************)
(* Calls into the remote engine.  A call is recorded with its name, the    *)
(* pipeline stage it belongs to, the composite it works on (1 = first date *)
(* range, 2 = second, 0 = neither or both) and its literal arguments.      *)
(***************************************************************************)
Op(name, stage, img, args) == [op |-> name, stage |-> stage, img |-> img, args |-> args]

\* The point built with latitude first.
get_buffered_aoi_swapped(center_lon, center_lat, r_km) ==
    << Op("Geometry.Point", "aoi", 0, <<center_lat, center_lon>>),
       Op("buffer", "aoi", 0, <<r_km * 1000>>) >>

\* The radius handed on in kilometres.
get_buffered_aoi_km(center_lon, center_lat, r_km) ==
    << Op("Geometry.Point", "aoi", 0, <<center_lon, center_lat>>),
       Op("buffer", "aoi", 0, <<r_km>>) >>

get_buffered_aoi(center_lon, center_lat, r_km) ==
    << Op("Geometry.Point", "aoi", 0, <<center_lon, center_lat>>),
       Op("buffer", "aoi", 0, <<r_km * 1000>>) >>

temporal_median(i, start_date, end_date) ==
    << Op("filterDate", "filter", i, <<start_date, end_date>>),
       Op("median", "median", i, <<>>) >>

load_image_collection(i, start_date, end_date) ==
    << Op("ImageCollection", "filter", i, <<"COPERNICUS/S1_GRD">>),
       Op("filter.eq", "filter", i, <<"instrumentMode", "IW">>),
       Op("filter.listContains", "filter", i, <<"transmitterReceiverPolarisation", "VV">>),
       Op("filterBounds", "filter", i, <<"aoi">>) >>
    \o temporal_median(i, start_date, end_date)

enhanced_lee_filter(i) ==
    << Op("Kernel.square", "denoise", i, <<1>>),
       Op("reduceNeighborhood", "denoise", i, <<"mean">>),
       Op("reduceNeighborhood", "denoise", i, <<"variance">>),
       Op("add", "denoise", i, <<"1e-6">>),
       Op("divide", "denoise", i, <<>>),
       Op("subtract", "denoise", i, <<"mean">>),
       Op("multiply", "denoise", i, <<>>),
       Op("add", "denoise", i, <<"mean">>) >>

boxcar_filter(i) ==
    << Op("Kernel.square", "boxcar", i, <<1>>),
       Op("convolve", "boxcar", i, <<>>) >>

\* threshold = 0.1, as the fraction 1/10.
threshold == <<1, 10>>

\* The difference taken before the composites are masked.
process_images_diff_first(start1, end1, start2, end2) ==
    load_image_collection(1, start1, end1)
    \o load_image_collection(2, start2, end2)
    \o enhanced_lee_filter(1)
    \o enhanced_lee_filter(2)
    \o boxcar_filter(1)
    \o boxcar_filter(2)
    \o << Op("subtract", "diff", 0, <<>>),
          Op("abs", "diff", 0, <<>>),
          Op("Image.constant", "mask", 0, <<1>>),
          Op("clip", "mask", 0, <<"aoi">>),
          Op("updateMask", "mask", 1, <<>>),
          Op("updateMask", "mask", 2, <<>>),
          Op("gt", "threshold", 0, threshold) >>

process_images(start1, end1, start2, end2) ==
    load_image_collection(1, start1, end1)
    \o load_image_collection(2, start2, end2)
    \o enhanced_lee_filter(1)
    \o enhanced_lee_filter(2)
    \o boxcar_filter(1)
    \o boxcar_filter(2)
    \o << Op("Image.constant", "mask", 0, <<1>>),
          Op("clip", "mask", 0, <<"aoi">>),
          Op("updateMask", "mask", 1, <<>>),
          Op("updateMask", "mask", 2, <<>>),
          Op("subtract", "diff", 0, <<>>),
          Op("abs", "diff", 0, <<>>),
          Op("gt", "threshold", 0, threshold) >>

\* The composites drawn with the stretch of the difference image.
vis_params_of_diff == [min |-> 0, max |-> 10]

vis_params == [min |-> -25, max |-> 0]

diff_vis_params == [min |-> 0, max |-> 10]

\* A fourth tile endpoint, for the thresholded change mask.
GetMapIds_with_changes(vp, dvp) ==
    << Op("getMapId", "tile", 1, <<vp.min, vp.max>>),
       Op("getMapId", "tile", 2, <<vp.min, vp.max>>),
       Op("getMapId", "tile", 0, <<dvp.min, dvp.max>>),
       Op("getMapId", "tile", 0, <<0, 1>>) >>

\* The three tile-endpoint requests of main.
GetMapIdCalls(vp, dvp) ==
    << Op("getMapId", "tile", 1, <<vp.min, vp.max>>),
       Op("getMapId", "tile", 2, <<vp.min, vp.max>>),
       Op("getMapId", "tile", 0, <<dvp.min, dvp.max>>) >>

GetMapIds == GetMapIdCalls(vis_params, diff_vis_params)

\* ee.FeatureCollection([ee.Feature(aoi)]).getInfo()
OutlineFetch ==
    << Op("Feature", "outline", 0, <<"aoi">>),
       Op("FeatureCollection", "outline", 0, <<>>),
       Op("getInfo", "outline", 0, <<>>) >>

TileLayers(v) ==
    << [kind |-> "TileLayer",
        name |-> IF v = "A" THEN "Image 1 (Filtered & Boxcar)"
                 ELSE "Sentinel-1 Image 1 (Filtered & Boxcar)"],
       [kind |-> "TileLayer",
        name |-> IF v = "A" THEN "Image 2 (Filtered & Boxcar)"
                 ELSE "Sentinel-1 Image 2 (Filtered & Boxcar)"],
       [kind |-> "TileLayer", name |-> "Difference Image"] >>

GeoJsonLayer == [kind |-> "GeoJson", name |-> ""]

\* A guard that lets null images through.
ImagesTruthy_always(im) == im \in {"ok", "null"}

\* if image1_boxcar and image2_boxcar and diff: an image object is true,
\* None is false.
ImagesTruthy(im) == im = "ok"

\* The module's last statement: `if __name__ == "__main__": main()` in
\* variant A; variant B reads the undefined name _name_.
MainGuard(v) == IF v = "A" THEN "main" ELSE "NameError"

\* folium_map._repr_html_() in variant A; variant B asks for the attribute
\* repr_html, which a folium map does not have.
ReprHtml(v) == IF v = "A" THEN "ok" ELSE "AttributeError"

\* A failed start-up call swallowed: the script goes on to main().
StartupFailure_swallowed == "inited"

\* A failed start-up call is not caught: the exception ends the run.
StartupFailure == "crashed"

(***************************************************************************)
(* Form inputs.                                                            *)
(***************************************************************************)
RECURSIVE Strings(_)
Strings(n) ==
    IF n = 0 THEN {<<>>}
    ELSE LET S == Strings(n - 1)
         IN  S \cup {Append(s, c) : s \in {t \in S : Len(t) = n - 1}, c \in Alphabet}

\* Coordinate texts outside the alphabet or longer than MaxLen:
\* "20.0, 77.0", "-2.5,.7", "2,7,2", "x", "2,x", "x,7".
ExtraTexts ==
    { <<"2", "0", ".", "0", ",", " ", "7", "7", ".", "0">>,
      <<"-", "2", ".", "5", ",", ".", "7">>,
      <<"2", ",", "7", ",", "2">>,
      <<"x">>,
      <<"2", ",", "x">>,
      <<"x", ",", "7">> }

Texts == Strings(MaxLen) \cup ExtraTexts

Radii == {-1, 0, 10}

Today == <<2023, 7, 15>>

DateChoices ==
    { << <<2023, 1, 1>>, <<2023, 1, 15>>, <<2023, 7, 1>>, <<2023, 7, 15>> >>,
      << <<2023, 7, 15>>, <<2023, 7, 1>>, <<2023, 1, 15>>, <<2023, 1, 1>> >>,
      <<Today, Today, Today, Today>> }

(***************************************************************************)
(* The state after the page is first opened: nothing has run, the widgets  *)
(* hold their defaults and the form was not submitted.                     *)
(***************************************************************************)
Init ==
    /\ pc = [v \in Variants |-> "start"]
    /\ exc = [v \in Variants |-> "none"]
    /\ excLine = [v \in Variants |-> 0]
    /\ submitted = [v \in Variants |-> FALSE]
    /\ radius_km = [v \in Variants |-> 10]
    /\ lat_lon = [v \in Variants |-> <<>>]
    /\ dates = [v \in Variants |-> <<Today, Today, Today, Today>>]
    /\ center = [v \in Variants |-> <<>>]
    /\ aoi = [v \in Variants |-> "none"]
    /\ images = [v \in Variants |-> "none"]
    /\ ops = [v \in Variants |-> <<>>]
    /\ failedAt = [v \in Variants |-> 0]
    /\ startup = [v \in Variants |-> <<>>]
    /\ errorShown = [v \in Variants |-> FALSE]
    /\ printed = [v \in Variants |-> FALSE]
    /\ formRendered = [v \in Variants |-> FALSE]
    /\ layers = [v \in Variants |-> <<>>]
    /\ mapCenter = [v \in Variants |-> <<>>]
    /\ displayed = [v \in Variants |-> FALSE]

inputVars == <<submitted, radius_km, lat_lon, dates>>

resultVars == <<layers, mapCenter, displayed>>

\* An exception leaves the script: the run ends where it was raised.
Raise(v, type, line) ==
    /\ pc' = [pc EXCEPT ![v] = "crashed"]
    /\ exc' = [exc EXCEPT ![v] = type]
    /\ excLine' = [excLine EXCEPT ![v] = line]

Goto(v, where) ==
    /\ pc' = [pc EXCEPT ![v] = where]
    /\ UNCHANGED <<exc, excLine>>

\* ee.Authenticate()
Authenticate(v) ==
    /\ pc[v] = "start"
    /\ \E ok \in BOOLEAN :
         IF ok
         THEN /\ Goto(v, "authed")
              /\ startup' = [startup EXCEPT ![v] = Append(@, "Authenticate")]
         ELSE /\ pc' = [pc EXCEPT ![v] = StartupFailure]
              /\ exc' = [exc EXCEPT ![v] = "EEException"]
              /\ excLine' = [excLine EXCEPT ![v] = 7]
              /\ UNCHANGED startup
    /\ UNCHANGED <<inputVars, resultVars, center, aoi, images, ops, failedAt,
                   errorShown, printed, formRendered>>

\* ee.Initialize(project=...)
Initialize(v) ==
    /\ pc[v] = "authed"
    /\ \E ok \in BOOLEAN :
         IF ok
         THEN /\ Goto(v, "inited")
              /\ startup' = [startup EXCEPT ![v] = Append(@, "Initialize")]
         ELSE /\ pc' = [pc EXCEPT ![v] = StartupFailure]
              /\ exc' = [exc EXCEPT ![v] = "EEException"]
              /\ excLine' = [excLine EXCEPT ![v] = 8]
              /\ UNCHANGED startup
    /\ UNCHANGED <<inputVars, resultVars, center, aoi, images, ops, failedAt,
                   errorShown, printed, formRendered>>

\* The rest of the module up to the form: the definitions, the guard of the
\* last statement, and main() down to st.form_submit_button.
RenderForm(v) ==
    /\ pc[v] = "inited"
    /\ IF MainGuard(v) = "NameError"
       THEN Raise(v, "NameError", 167) /\ UNCHANGED formRendered
       ELSE IF ReprHtml(v) = "AttributeError"
       THEN Raise(v, "AttributeError", 100) /\ UNCHANGED formRendered
       ELSE /\ Goto(v, "form")
            /\ formRendered' = [formRendered EXCEPT ![v] = TRUE]
    /\ UNCHANGED <<inputVars, resultVars, center, aoi, images, ops, failedAt,
                   startup, errorShown, printed>>

\* if submitted: (if lat_lon:) and the assignment of the centre.
ReadCenter(v) ==
    /\ pc[v] = "form"
    /\ IF ~submitted[v]
       THEN Goto(v, "done") /\ UNCHANGED center
       ELSE IF v = "A"
       THEN IF lat_lon[v] = <<>>
            THEN Goto(v, "done") /\ UNCHANGED center
            ELSE LET p == ParseCoordinates(lat_lon[v])
                 IN  IF p.ok
                     THEN /\ Goto(v, "parsed")
                          /\ center' = [center EXCEPT ![v] = <<p.lat, p.lon>>]
                     ELSE Raise(v, "ValueError", 120) /\ UNCHANGED center
       ELSE /\ Goto(v, "parsed")
            /\ center' = [center EXCEPT ![v] = FixedCenter]
    /\ UNCHANGED <<inputVars, resultVars, aoi, images, ops, failedAt, startup,
                   errorShown, printed, formRendered>>

\* aoi = get_buffered_aoi(center_lon, center_lat, radius_km), outside any try.
BuildAoi(v) ==
    /\ pc[v] = "parsed"
    /\ LET full == get_buffered_aoi(center[v][2], center[v][1], radius_km[v])
       IN  \E k \in 0..Len(full) :
             IF k = 0
             THEN /\ Goto(v, "aoi")
                  /\ ops' = [ops EXCEPT ![v] = @ \o full]
                  /\ aoi' = [aoi EXCEPT ![v] = "buffer"]
                  /\ UNCHANGED failedAt
             ELSE /\ Raise(v, "EEException", IF v = "A" THEN 121 ELSE 116)
                  /\ ops' = [ops EXCEPT ![v] = @ \o SubSeq(full, 1, k)]
                  /\ failedAt' = [failedAt EXCEPT ![v] = Len(ops[v]) + k]
                  /\ UNCHANGED aoi
    /\ UNCHANGED <<inputVars, resultVars, center, images, startup, errorShown,
                   printed, formRendered>>

\* The call of process_images: the try block and its except clause.
ProcessImages(v) ==
    /\ pc[v] = "aoi"
    /\ LET full == IF v = "A"
                   THEN process_images(DateStr(dates[v][1]), DateStr(dates[v][2]),
                                       DateStr(dates[v][3]), DateStr(dates[v][4]))
                   ELSE process_images(FixedDates[1], FixedDates[2],
                                       FixedDates[3], FixedDates[4])
       IN  \E k \in 0..Len(full) :
             IF k = 0
             THEN /\ ops' = [ops EXCEPT ![v] = @ \o full]
                  /\ images' = [images EXCEPT ![v] = "ok"]
                  /\ UNCHANGED <<failedAt, errorShown, printed>>
             ELSE /\ ops' = [ops EXCEPT ![v] = @ \o SubSeq(full, 1, k)]
                  /\ failedAt' = [failedAt EXCEPT ![v] = Len(ops[v]) + k]
                  /\ images' = [images EXCEPT ![v] = "null"]
                  /\ errorShown' = [errorShown EXCEPT ![v] = (v = "A")]
                  /\ printed' = [printed EXCEPT ![v] = (v = "B")]
    /\ Goto(v, "processed")
    /\ UNCHANGED <<inputVars, resultVars, center, aoi, startup, formRendered>>

\* if image1_boxcar and image2_boxcar and diff: and the three getMapId calls.
RequestTiles(v) ==
    /\ pc[v] = "processed"
    /\ IF ~ImagesTruthy(images[v])
       THEN Goto(v, "done") /\ UNCHANGED <<ops, failedAt>>
       ELSE \E k \in 0..Len(GetMapIds) :
              IF k = 0
              THEN /\ Goto(v, "tiles")
                   /\ ops' = [ops EXCEPT ![v] = @ \o GetMapIds]
                   /\ UNCHANGED failedAt
              ELSE /\ Raise(v, "EEException", 126 + k)
                   /\ ops' = [ops EXCEPT ![v] = @ \o SubSeq(GetMapIds, 1, k)]
                   /\ failedAt' = [failedAt EXCEPT ![v] = Len(ops[v]) + k]
    /\ UNCHANGED <<inputVars, resultVars, center, aoi, images, startup,
                   errorShown, printed, formRendered>>

\* The new map, its three tile layers, the outline fetch, the outline layer
\* and the display of the map.
RenderResult(v) ==
    /\ pc[v] = "tiles"
    /\ mapCenter' = [mapCenter EXCEPT ![v] = <<center[v][1], center[v][2]>>]
    /\ \E k \in 0..Len(OutlineFetch) :
         IF k = 0
         THEN /\ ops' = [ops EXCEPT ![v] = @ \o OutlineFetch]
              /\ layers' = [layers EXCEPT ![v] = TileLayers(v) \o <<GeoJsonLayer>>]
              /\ UNCHANGED failedAt
              /\ IF ReprHtml(v) = "AttributeError"
                 THEN Raise(v, "AttributeError", 162) /\ UNCHANGED displayed
                 ELSE /\ Goto(v, "done")
                      /\ displayed' = [displayed EXCEPT ![v] = TRUE]
         ELSE /\ Raise(v, "EEException", IF v = "A" THEN 151 ELSE 153)
              /\ ops' = [ops EXCEPT ![v] = @ \o SubSeq(OutlineFetch, 1, k)]
              /\ failedAt' = [failedAt EXCEPT ![v] = Len(ops[v]) + k]
              /\ layers' = [layers EXCEPT ![v] = TileLayers(v)]
              /\ UNCHANGED displayed
    /\ UNCHANGED <<inputVars, center, aoi, images, startup, errorShown, printed,
                   formRendered>>

\* The run is over and the page, with its form, waits for the user; what
\* the run computed is rebuilt by the next run.  Only a rendered form offers
\* another interaction.
Idle(v) ==
    /\ pc[v] \in {"done", "crashed"}
    /\ formRendered[v]
    /\ pc' = [pc EXCEPT ![v] = "idle"]
    /\ exc' = [exc EXCEPT ![v] = "none"]
    /\ excLine' = [excLine EXCEPT ![v] = 0]
    /\ submitted' = [submitted EXCEPT ![v] = FALSE]
    /\ center' = [center EXCEPT ![v] = <<>>]
    /\ aoi' = [aoi EXCEPT ![v] = "none"]
    /\ images' = [images EXCEPT ![v] = "none"]
    /\ ops' = [ops EXCEPT ![v] = <<>>]
    /\ failedAt' = [failedAt EXCEPT ![v] = 0]
    /\ errorShown' = [errorShown EXCEPT ![v] = FALSE]
    /\ printed' = [printed EXCEPT ![v] = FALSE]
    /\ layers' = [layers EXCEPT ![v] = <<>>]
    /\ mapCenter' = [mapCenter EXCEPT ![v] = <<>>]
    /\ displayed' = [displayed EXCEPT ![v] = FALSE]
    /\ UNCHANGED <<radius_km, lat_lon, dates, startup, formRendered>>

runVars == <<pc, exc, excLine, submitted, center, aoi, images, ops, failedAt,
             startup, errorShown, printed, formRendered, layers, mapCenter,
             displayed>>

\* The user changes the radius number input.
EditRadius(v) ==
    /\ pc[v] = "idle"
    /\ \E r \in Radii : radius_km' = [radius_km EXCEPT ![v] = r]
    /\ UNCHANGED <<runVars, lat_lon, dates>>

\* The user changes the coordinate text field (variant A has one).
EditCoordinates(v) ==
    /\ pc[v] = "idle"
    /\ v = "A"
    /\ \E t \in Texts : lat_lon' = [lat_lon EXCEPT ![v] = t]
    /\ UNCHANGED <<runVars, radius_km, dates>>

\* The user changes the four date inputs (variant A has them).
EditDates(v) ==
    /\ pc[v] = "idle"
    /\ v = "A"
    /\ \E d \in DateChoices : dates' = [dates EXCEPT ![v] = d]
    /\ UNCHANGED <<runVars, radius_km, lat_lon>>

\* The user presses Apply: the script runs again from its first line with
\* the form's values.
Submit(v) ==
    /\ pc[v] = "idle"
    /\ pc' = [pc EXCEPT ![v] = "start"]
    /\ submitted' = [submitted EXCEPT ![v] = TRUE]
    /\ formRendered' = [formRendered EXCEPT ![v] = FALSE]
    /\ startup' = [startup EXCEPT ![v] = <<>>]
    /\ UNCHANGED <<exc, excLine, radius_km, lat_lon, dates, center, aoi, images,
                   ops, failedAt, errorShown, printed, layers, mapCenter,
                   displayed>>

Step(v) ==
    \/ Authenticate(v)
    \/ Initialize(v)
    \/ RenderForm(v)
    \/ ReadCenter(v)
    \/ BuildAoi(v)
    \/ ProcessImages(v)
    \/ RequestTiles(v)
    \/ RenderResult(v)
    \/ Idle(v)
    \/ EditRadius(v)
    \/ EditCoordinates(v)
    \/ EditDates(v)
    \/ Submit(v)

Next == \E v \in Variants : Step(v)

Spec == Init /\ [][Next]_vars

(***************************************************************************)
(* Properties.                                                             *)
(***************************************************************************)
Terminal(v) == pc[v] \in {"done", "crashed"}

\* The positions in the log of variant v that hold a call named name.
Calls(v, name) == {i \in DOMAIN ops[v] : ops[v][i].op = name}

StageRank(st) ==
    CASE st = "aoi" -> 0
      [] st = "filter" -> 1
      [] st = "median" -> 2
      [] st = "denoise" -> 3
      [] st = "boxcar" -> 4
      [] st = "mask" -> 5
      [] st = "diff" -> 6
      [] st = "threshold" -> 7
      [] st = "tile" -> 8
      [] st = "outline" -> 9

\* The names of the calls made on composite i, in the order of the log.
RECURSIVE NamesOf(_, _)
NamesOf(log, i) ==
    IF log = <<>> THEN <<>>
    ELSE IF Head(log).img = i /\ Head(log).stage # "tile"
         THEN <<Head(log).op>> \o NamesOf(Tail(log), i)
         ELSE NamesOf(Tail(log), i)

IsPrefix(a, b) == Len(a) <= Len(b) /\ a = SubSeq(b, 1, Len(a))

FilterOrder ==
    <<"ImageCollection", "filter.eq", "filter.listContains", "filterBounds", "filterDate">>

\* C1: a remote failure during a submission, at whichever remote step, does
\* not escape the submission handler: process_images returned four null
\* images, variant A showed an error message and variant B only printed.
C1_RemoteFailureCaught ==
    \A v \in Variants :
      failedAt[v] # 0 =>
        /\ pc[v] # "crashed"
        /\ images[v] = "null"
        /\ errorShown[v] = (v = "A")
        /\ printed[v] = (v = "B")

\* C2: the remote operations of a submission are issued in the order filter
\* (mode, polarisation, bounds, date range), median, denoise, boxcar, mask,
\* absolute difference, threshold: each composite passes the stages in that
\* order, both composites pass the same calls, and the difference is taken
\* only after both composites are masked.
C2_PipelineOrder ==
    \A v \in Variants :
      LET log == ops[v]
      IN  /\ \A j, k \in DOMAIN log :
               (j < k /\ log[j].img = log[k].img)
                 => StageRank(log[j].stage) <= StageRank(log[k].stage)
          /\ \A j, k \in DOMAIN log :
               (j < k /\ StageRank(log[j].stage) >= 5)
                 => StageRank(log[k].stage) >= StageRank(log[j].stage)
          /\ \A i \in {1, 2} :
               LET names == NamesOf(log, i)
               IN  \/ IsPrefix(names, FilterOrder)
                   \/ /\ IsPrefix(FilterOrder, names)
                      /\ names[Len(FilterOrder) + 1] = "median"
          /\ \A k \in DOMAIN log :
               log[k].stage = "diff" =>
                 \A i \in {1, 2} :
                   \E j \in 1..(k - 1) : log[j].op = "updateMask" /\ log[j].img = i
          /\ \A k \in Calls(v, "abs") : k > 1 /\ log[k - 1].op = "subtract"
          /\ \A k \in Calls(v, "gt") : k > 1 /\ log[k - 1].op = "abs"
          /\ \A k \in Calls(v, "convolve") :
               k > 1 /\ log[k - 1].op = "Kernel.square" /\ log[k - 1].args = <<1>>
          /\ images[v] = "ok" =>
               /\ NamesOf(log, 1) = NamesOf(log, 2)
               /\ \A i \in {1, 2} :
                    {log[k].stage : k \in {n \in DOMAIN log : log[n].img = i}}
                      \ {"tile"}
                      = {"filter", "median", "denoise", "boxcar", "mask"}
               /\ Calls(v, "gt") # {}

C2_Witness ==
    /\ pc["A"] = "processed"
    /\ images["A"] = "ok"
    /\ Cardinality(Calls("A", "updateMask")) = 2

\* C3: a submission with a well-formed centre on which every remote call
\* succeeds raises no exception, and when it is over it has issued exactly two
\* collection queries, one per date range, and exactly three tile-endpoint
\* requests, and has displayed a new map with exactly three tile layers and
\* one GeoJSON outline layer.
C3_EndToEnd ==
    \A v \in Variants :
      (submitted[v] /\ center[v] # <<>> /\ failedAt[v] = 0) =>
        /\ pc[v] # "crashed"
        /\ exc[v] = "none"
        /\ pc[v] = "done" =>
             /\ Cardinality(Calls(v, "ImageCollection")) = 2
             /\ Cardinality(Calls(v, "filterDate")) = 2
             /\ \A i \in {1, 2} :
                  \E k \in Calls(v, "filterDate") :
                    /\ ops[v][k].img = i
                    /\ v = "A" => ops[v][k].args =
                         <<DateStr(dates[v][2 * i - 1]), DateStr(dates[v][2 * i])>>
             /\ Cardinality(Calls(v, "getMapId")) = 3
             /\ Len(layers[v]) = 4
             /\ \A n \in 1..3 : layers[v][n].kind = "TileLayer"
             /\ layers[v][4].kind = "GeoJson"
             /\ Cardinality(Calls(v, "getInfo")) = 1
             /\ mapCenter[v] # <<>>
             /\ displayed[v]

C3_Witness ==
    /\ pc["A"] = "done"
    /\ displayed["A"]
    /\ failedAt["A"] = 0
    /\ radius_km["A"] = 10
    /\ lat_lon["A"] = <<"2", "0", ".", "0", ",", " ", "7", "7", ".", "0">>
    /\ dates["A"] = << <<2023, 1, 1>>, <<2023, 1, 15>>, <<2023, 7, 1>>, <<2023, 7, 15>> >>

CommaCount(t) == Cardinality({i \in DOMAIN t : t[i] = ","})

NumeralChars == {Digits[i] : i \in 1..10} \cup {" ", "-", "+", "."}

\* A piece of text that cannot be a number: it has no digit, or a character
\* no numeral has.
NonNumeric(t) ==
    \/ \A i \in DOMAIN t : ~IsDigit(t[i])
    \/ \E i \in DOMAIN t : t[i] \notin NumeralChars

\* A coordinate text that is a single number, has more than two
\* comma-separated parts, or has a half that is not a number.
Malformed(t) ==
    /\ t # <<>>
    /\ \/ CommaCount(t) # 1
       \/ NonNumeric(SubSeq(t, 1, Find(t, ",") - 1))
       \/ NonNumeric(SubSeq(t, Find(t, ",") + 1, Len(t)))

\* C4: in variant A a submission with malformed coordinate text ends in an
\* uncaught exception raised by the parsing statement, before any AOI is
\* constructed and before any remote pipeline call, and without an error
\* message of the application.
C4_MalformedCrashes ==
    (formRendered["A"] /\ submitted["A"] /\ Malformed(lat_lon["A"]) /\ pc["A"] # "form") =>
      /\ pc["A"] = "crashed"
      /\ exc["A"] = "ValueError"
      /\ excLine["A"] = 120
      /\ center["A"] = <<>>
      /\ aoi["A"] = "none"
      /\ ops["A"] = <<>>
      /\ images["A"] = "none"
      /\ ~errorShown["A"]
      /\ ~displayed["A"]

C4_Witness ==
    /\ pc["A"] = "crashed"
    /\ exc["A"] = "ValueError"
    /\ submitted["A"]
    /\ lat_lon["A"] = <<"2", ",", "7", ",", "2">>

StartupOrder == <<"Authenticate", "Initialize">>

StartupFailed(v) == exc[v] = "EEException" /\ excLine[v] \in {7, 8}

\* C5: Authenticate and then Initialize both complete, in that order, before
\* a form is rendered or a remote pipeline call is issued; if either fails
\* the run stops there: no form, no remote call, no further step.
C5_StartupFirst ==
    \A v \in Variants :
      /\ IsPrefix(startup[v], StartupOrder)
      /\ (formRendered[v] \/ ops[v] # <<>> \/ center[v] # <<>> \/ displayed[v]
            \/ pc[v] \in {"inited", "form", "parsed", "aoi", "processed", "tiles", "done", "idle"})
           => startup[v] = StartupOrder
      /\ (startup[v] # StartupOrder /\ pc[v] # "start" /\ pc[v] # "authed")
           => StartupFailed(v)
      /\ StartupFailed(v) =>
           /\ pc[v] = "crashed"
           /\ startup[v] # StartupOrder
           /\ ~formRendered[v]
           /\ ops[v] = <<>>
           /\ ~displayed[v]
           /\ ~ENABLED Step(v)

C5_Witness ==
    /\ pc["A"] = "form"
    /\ formRendered["A"]
    /\ submitted["A"]
    /\ startup["A"] = StartupOrder

\* The numbers before and after the comma of a coordinate text.
FirstHalf(t) == float(SubSeq(t, 1, Find(t, ",") - 1)).val

SecondHalf(t) == float(SubSeq(t, Find(t, ",") + 1, Len(t))).val

\* C6: in variant A the number before the comma becomes center_lat and the
\* number after it center_lon; the AOI point is built from
\* [center_lon, center_lat] and the result map is centred on
\* [center_lat, center_lon].
C6_LatLonOrder ==
    center["A"] # <<>> =>
      /\ center["A"] = <<FirstHalf(lat_lon["A"]), SecondHalf(lat_lon["A"])>>
      /\ pc["A"] \in {"aoi", "processed", "tiles", "done"} => Calls("A", "Geometry.Point") # {}
      /\ \A k \in Calls("A", "Geometry.Point") :
           ops["A"][k].args = <<SecondHalf(lat_lon["A"]), FirstHalf(lat_lon["A"])>>
      /\ pc["A"] = "done" /\ images["A"] = "ok" => mapCenter["A"] # <<>>
      /\ mapCenter["A"] # <<>> =>
           mapCenter["A"] = <<FirstHalf(lat_lon["A"]), SecondHalf(lat_lon["A"])>>

C6_Witness ==
    /\ pc["A"] = "done"
    /\ displayed["A"]
    /\ lat_lon["A"] = <<"2", ",", "7">>
    /\ center["A"] = << <<2, 1>>, <<7, 1>> >>
    /\ mapCenter["A"] = << <<2, 1>>, <<7, 1>> >>

\* C7: the buffer distance handed to the remote buffer construction is
\* radius_km * 1000 for every submitted radius, and a zero or negative radius
\* is not rejected locally: the buffer is requested all the same.
C7_RadiusMetres ==
    \A v \in Variants :
      /\ \A k \in Calls(v, "buffer") : ops[v][k].args = <<radius_km[v] * 1000>>
      /\ pc[v] \in {"aoi", "processed", "tiles", "done"} /\ center[v] # <<>>
           => Cardinality(Calls(v, "buffer")) = 1
      /\ (pc[v] = "parsed" /\ radius_km[v] <= 0) => ENABLED BuildAoi(v)

C7_Witness ==
    /\ radius_km["A"] = 10
    /\ pc["A"] = "aoi"
    /\ \E k \in Calls("A", "buffer") : ops["A"][k].args = <<10000>>

\* The same inputs in both variants: variant B's fixed centre and dates
\* entered in variant A, and the same radius.
SameInputs ==
    /\ submitted["A"] = submitted["B"]
    /\ radius_km["A"] = radius_km["B"]
    /\ submitted["A"] =>
         /\ lat_lon["A"] = <<"2", "0", ".", "0", ",", " ", "7", "7", ".", "0">>
         /\ <<DateStr(dates["A"][1]), DateStr(dates["A"][2]),
              DateStr(dates["A"][3]), DateStr(dates["A"][4])>> = FixedDates

RECURSIVE Kinds(_)
Kinds(ls) == IF ls = <<>> THEN <<>> ELSE <<Head(ls).kind>> \o Kinds(Tail(ls))

\* C8: the two variants are the same flow: a run of variant B and a run of
\* variant A on the same inputs, with no remote call failing in either, end
\* with the same form, the same sequence of remote operations and the same
\* layers (up to their names) displayed.
C8_VariantsEquivalent ==
    (Terminal("A") /\ Terminal("B") /\ SameInputs
       /\ exc["A"] # "EEException" /\ exc["B"] # "EEException"
       /\ failedAt["A"] = 0 /\ failedAt["B"] = 0) =>
      /\ formRendered["A"] = formRendered["B"]
      /\ ops["A"] = ops["B"]
      /\ Kinds(layers["A"]) = Kinds(layers["B"])
      /\ displayed["A"] = displayed["B"]

\* C9: the display stretches and the threshold are the literals of the code
\* whatever the inputs: both composite tile requests use min -25, max 0, the
\* difference tile request min 0, max 10, and the change mask compares
\* against 0.1 (1/10).
C9_FixedLiterals ==
    \A v \in Variants :
      /\ \A k \in Calls(v, "getMapId") :
           ops[v][k].args = IF ops[v][k].img \in {1, 2} THEN <<-25, 0>> ELSE <<0, 10>>
      /\ \A k \in Calls(v, "gt") : ops[v][k].args = <<1, 10>>
      /\ pc[v] = "tiles" =>
           /\ \A i \in {1, 2} : \E k \in Calls(v, "getMapId") : ops[v][k].img = i
           /\ \E k \in Calls(v, "getMapId") : ops[v][k].img = 0
           /\ Calls(v, "gt") # {}

C9_Witness ==
    /\ pc["A"] = "done"
    /\ displayed["A"]
    /\ radius_km["A"] = -1
    /\ dates["A"] = <<Today, Today, Today, Today>>
    /\ Cardinality(Calls("A", "getMapId")) = 3

\* C10: in variant A a result map is displayed only after a submission with
\* non-empty, parsed coordinate text, non-null images from process_images,
\* and the three tile-endpoint requests and the outline fetch completed; a
\* submission with empty text issues no remote pipeline call and displays
\* neither a map nor an error; null images lead to no tile-endpoint request.
C10_RenderGuard ==
    /\ displayed["A"] =>
         /\ submitted["A"]
         /\ lat_lon["A"] # <<>>
         /\ center["A"] # <<>>
         /\ images["A"] = "ok"
         /\ Cardinality(Calls("A", "getMapId")) = 3
         /\ Calls("A", "getInfo") # {}
         /\ failedAt["A"] = 0
    /\ (submitted["A"] /\ lat_lon["A"] = <<>>) =>
         /\ ops["A"] = <<>>
         /\ ~displayed["A"]
         /\ ~errorShown["A"]
         /\ mapCenter["A"] = <<>>
    /\ (submitted["A"] /\ lat_lon["A"] = <<>> /\ formRendered["A"] /\ pc["A"] # "form")
         => pc["A"] = "done"
    /\ images["A"] = "null" =>
         /\ Calls("A", "getMapId") = {}
         /\ ~displayed["A"]
         /\ pc["A"] \in {"processed", "done"}

C10_Witness ==
    /\ pc["A"] = "done"
    /\ submitted["A"]
    /\ images["A"] = "null"
    /\ errorShown["A"]
    /\ ~displayed["A"]

====
